---- MODULE Spec2Model ----
(***************************************************************************)
(* A model of the collaboration core of MUCK: the socket.io server of      *)
(* src/server/websocket.ts, the storage operations of src/server/db.ts it  *)
(* calls, and the client's message handlers of src/unnamed/part_000.       *)
(*                                                                         *)
(* Node runs the handlers on one thread: a handler runs without            *)
(* interruption up to an `await` on storage, where it is suspended and     *)
(* any other handler may run.  A suspended handler is a record in `tasks`; *)
(* one action models one uninterrupted segment of a handler.  An `await`   *)
(* of a value that is already there (getOrCreateRoom returning a           *)
(* registered room) is not a suspension point of the model.                *)
(*                                                                         *)
(* The CRDT document is a grow-only set of atoms: Y.applyUpdate is set     *)
(* union and Y.encodeStateAsUpdate the set itself.                         *)
(*                                                                         *)
(* A message the server emits is appended to the receiving connection's    *)
(* inbox and handled by the client in the same step: the transport is FIFO *)
(* per connection and the client's handlers touch client state only.       *)
(***************************************************************************)
EXTENDS Integers, Sequences, FiniteSets, TLC

(* ---------------------------- bounds ----------------------------------- *)

MaxJoins == 1        \* join_room messages one connection sends
MaxUpdates == 2      \* update messages received in one run
MaxDbFailures == 1   \* storage writes that are rejected in one run
MaxInFlight == 2     \* message handlers suspended at one time
MaxEdits == 1        \* insertions one client makes into its document
MaxEvents == 2       \* ping, sync_step1 and cursor_update messages in one run
MaxTime == 5         \* the clock's last reading, in units of the client's ping interval
MaxQueued == 3       \* rows ever inserted into the offline queue
MaxSequence == 2     \* the largest sequenceNumber a client gives a queued update
MaxRecoveries == 1   \* recoverOfflineOperations calls in one run
MaxPosition == 1     \* cursor positions a client reports

(* --------------------------- constants ---------------------------------- *)

Null == [null |-> TRUE]        \* null / undefined
NoRoom == 0                    \* rooms.get(documentId) === undefined

ClientIds == {"x", "y"}

(* The connections.  Connections 1 and 2 are the sockets of two clients   *)
(* of user 1, with clientIds "x" and "y".  Connection 3 presents clientId *)
(* "x" as well: the socket client "x" opens when it reconnects (the       *)
(* client's "connect" handler sends join_room again with the clientId it  *)
(* generated once), or the socket of another user.                        *)
Conns == {1, 2, 3}
ClientIdOf(c) == IF c \in {1, 3} THEN "x" ELSE "y"

HeartbeatTimeout == 3   \* the heartbeat timeout, in ping intervals of the client
NumColors == 8                 \* COLORS.length
SnapshotThreshold == 100       \* room.operationBuffer.length > 100

(* The users table. *)
Users == {[id |-> 1, openId |-> "o1", name |-> "U1"],
          [id |-> 2, openId |-> "o2", name |-> "U2"],
          [id |-> 3, openId |-> "o3", name |-> "U3"]}

(* The documents table: document 1 and document 2, both owned by user 1,  *)
(* neither with a stored snapshot.  No operation of the core writes it.   *)
Documents == {[id |-> 1, ownerId |-> 1, snapshotState |-> Null, snapshotVersion |-> 0],
              [id |-> 2, ownerId |-> 1, snapshotState |-> Null, snapshotVersion |-> 0]}

(* The documentPermissions table: user 2 holds a grant on document 2      *)
(* only; user 3 holds none.  No operation of the core writes it.          *)
DocumentPermissions == {[documentId |-> 2, userId |-> 2, role |-> "editor"]}

(* The documents that get a room: document 1.  Document 9 does not exist. *)
DocIds == {1}

(* Bearer tokens: the number of dot-separated parts and the decoded       *)
(* payload of the middle part.                                            *)
Token(openId) == [parts |-> 3, payload |-> [openId |-> openId, exp |-> 20]]
ExpiredToken == [parts |-> 3, payload |-> [openId |-> "o1", exp |-> -1]]
BadToken == [parts |-> 2, payload |-> [openId |-> "o1", exp |-> 20]]

(* The join_room messages each connection may send.  Connections 1 and 2  *)
(* hold the owner's token; connection 3 holds the token of user 1, 2 or   *)
(* 3, of nobody ("o0"), a token that does not parse, or a token of user 1 *)
(* whose exp lies before the clock's first reading, and with the owner's  *)
(* token it may name either clientId (the server reads the field from     *)
(* the message).                                                          *)
JoinRoomMessages(c) ==
  IF c \in {1, 2}
    THEN {[documentId |-> 1, clientId |-> ClientIdOf(c), token |-> Token("o1")]}
    ELSE {[documentId |-> 1, clientId |-> ClientIdOf(c), token |-> tk] :
             tk \in {Token("o1"), Token("o2"), Token("o3"), Token("o0"), BadToken,
                     ExpiredToken}}
         \cup {[documentId |-> 9, clientId |-> ClientIdOf(c), token |-> Token("o1")]}
         \cup {[documentId |-> 1, clientId |-> "y", token |-> Token("o1")]}

(* The runs: which sockets are open at the start, what they send, the     *)
(* clock's first reading (a run that starts at MaxTime sees no time       *)
(* pass), and how many updates of connection 1 the server has already     *)
(* merged, stored and broadcast when the run begins.  Two sockets of the  *)
(* owner editing; three sockets joining and leaving; one socket that      *)
(* sends join_room once more than the others; a member and a client of    *)
(* any kind that ping, sync and move their cursors; a client of any kind  *)
(* alone that also edits; a member that grows silent while time passes;   *)
(* a member whose Room holds SnapshotThreshold buffered operations; a     *)
(* client of any kind that sends join_room once more than the others.    *)
Scenarios ==
  {[open |-> {1, 2}, joins |-> MaxJoins, updates |-> MaxUpdates,
    failures |-> MaxDbFailures, events |-> 0, start |-> MaxTime, prior |-> 0],
   [open |-> {1, 2, 3}, joins |-> MaxJoins, updates |-> 0, failures |-> 0,
    events |-> 0, start |-> MaxTime, prior |-> 0],
   [open |-> {1}, joins |-> MaxJoins + 1, updates |-> MaxUpdates,
    failures |-> MaxDbFailures, events |-> 0, start |-> MaxTime, prior |-> 0],
   [open |-> {2, 3}, joins |-> MaxJoins, updates |-> 0, failures |-> 0,
    events |-> 1, start |-> MaxTime, prior |-> 0],
   [open |-> {3}, joins |-> MaxJoins, updates |-> 1, failures |-> MaxDbFailures,
    events |-> MaxEvents, start |-> MaxTime, prior |-> 0],
   [open |-> {2}, joins |-> MaxJoins, updates |-> 0, failures |-> 0,
    events |-> 1, start |-> 0, prior |-> 0],
   [open |-> {1}, joins |-> MaxJoins, updates |-> MaxUpdates, failures |-> 0,
    events |-> 0, start |-> MaxTime, prior |-> SnapshotThreshold],
   [open |-> {3}, joins |-> MaxJoins + 1, updates |-> 0, failures |-> 0,
    events |-> 0, start |-> MaxTime, prior |-> 0]}

(* The atoms a client inserts are its own: Yjs names an item by the       *)
(* inserting client and a clock.                                          *)
AtomsOf(c) == {<<c, k>> : k \in 1 .. MaxEdits}

(* ------------------------- pure functions ------------------------------- *)

(* parseJWT: null unless the token has three parts; the payload otherwise *)
(* (whatever its exp).                                                    *)
parseJWT(token) ==
  IF token.parts # 3 THEN Null ELSE token.payload

(* drizzle's eq(column, value): an SQL condition object. *)
Eq(column, value) == [column |-> column, value |-> value]

(* Every SQL condition object is truthy in JavaScript. *)
Truthy(v) == v # Null

(* JavaScript's `l && r`: l when l is falsy, r otherwise. *)
JsAnd(l, r) == IF Truthy(l) THEN r ELSE l

(* A row satisfies the condition given to .where(). *)
Matches(row, where) == row[where.column] = where.value

(* .limit(1) and `result.length > 0 ? result[0] : <none>`. *)
FirstOrNull(result) ==
  IF result = {} THEN Null ELSE CHOOSE row \in result : TRUE

getUserByOpenId(openId) ==
  FirstOrNull({u \in Users : Matches(u, Eq("openId", openId))})

getDocument(documentId) ==
  FirstOrNull({d \in Documents : Matches(d, Eq("id", documentId))})

checkDocumentAccess(documentId, userId) ==
  FirstOrNull({p \in DocumentPermissions :
      Matches(p, JsAnd(Eq("documentId", documentId), Eq("userId", userId)))})

(* getNextColor: COLORS[colorIndex % COLORS.length], as the index. *)
getNextColor(index) == index % NumColors

(* Y.applyUpdate(doc, update) and Y.encodeStateAsUpdate(doc). *)
applyUpdate(doc, update) == doc \cup update
encodeStateAsUpdate(doc) == doc

(* A finite map with one entry set or deleted (Map.set, Map.delete). *)
MapSet(m, k, v) == [j \in DOMAIN m \cup {k} |-> IF j = k THEN v ELSE m[j]]
MapDelete(m, k) == [j \in DOMAIN m \ {k} |-> m[j]]
MapGetOr0(m, k) == IF k \in DOMAIN m THEN m[k] ELSE 0
EmptyMap == [j \in {} |-> 0]

(* ------------------------------ state ----------------------------------- *)

VARIABLES
  rooms,           \* the registry: documentId -> room object, or NoRoom
  heap,            \* the DocumentRoom objects ever constructed, by identity
  currentSession,  \* each connection's currentSession, or Null
  colorIndex,      \* the color counter
  channel,         \* members of the socket.io room doc:<documentId>
  connected,       \* whether each connection's socket is open
  tasks,           \* the suspended handlers
  sent,            \* how many messages each connection has sent
  nSnapshots,      \* how many times persistSnapshot was called
  operations,      \* the operations table, in insertion order
  sessions,        \* the sessions table
  inbox,           \* the messages each client has received, in order
  clientDoc,       \* each client's Y.Doc
  joinsLeft,       \* join_room messages each connection may still send
  updatesLeft,     \* update messages the connections may still send
  failuresLeft,    \* storage writes that may still be rejected
  roomLog,         \* history: per room object, how it was constructed
  dropped,         \* history: per document, the doc of the Room last dropped
  broadcasts,      \* history: the update broadcasts, in emission order
  failedUpdates,   \* history: the updates answered with UPDATE_FAILED
  rejected,        \* history: how many storage writes were rejected
  silent,          \* history: the messages a handler returned from without a reply
  now,             \* the clock Date.now() reads
  eventsLeft,      \* pings, sync_step1s and cursor_updates still to come
  offlineQueue,    \* the offlineQueue table, in insertion order
  nextRowId,       \* the id the next offlineQueue row gets
  ydoc,            \* per document, the Y.Doc handed to recoverOfflineOperations
  recoveries,      \* the suspended recoverOfflineOperations calls
  outcomes,        \* history: what each finished recovery read, returned and left
  recoveriesLeft   \* recoverOfflineOperations calls still to come

vars == <<rooms, heap, currentSession, colorIndex, channel, connected, tasks,
          sent, nSnapshots, operations, sessions, inbox, clientDoc, joinsLeft, updatesLeft,
          failuresLeft, roomLog, dropped, broadcasts, failedUpdates, rejected, silent, now,
          eventsLeft, offlineQueue, nextRowId, ydoc, recoveries, outcomes,
          recoveriesLeft>>

serverVars == <<rooms, heap, currentSession, colorIndex, channel>>
histVars == <<roomLog, dropped, broadcasts, failedUpdates, rejected, silent>>
clockVars == <<now, eventsLeft>>
recoveryVars == <<offlineQueue, nextRowId, ydoc, recoveries, outcomes, recoveriesLeft>>

(* The offline queue is empty and nothing recovers from it. *)
NoRecovery(calls) ==
  /\ offlineQueue = <<>>
  /\ nextRowId = 1
  /\ ydoc = [d \in {doc.id : doc \in Documents} |-> {}]
  /\ recoveries = {}
  /\ outcomes = <<>>
  /\ recoveriesLeft = calls

(* ----------------------------- transport -------------------------------- *)

(* socket.emit / io.to(..).emit: the message reaches the open sockets     *)
(* among the targets.                                                     *)
Emit(ib, targets, m) ==
  [c \in Conns |-> IF c \in targets /\ connected[c] THEN Append(ib[c], m) ELSE ib[c]]

(* The client's socket.on("update") and socket.on("room_joined"):         *)
(* Y.applyUpdate(ydoc, bytes) at every client the message reaches.        *)
ClientApply(cd, targets, update) ==
  [c \in Conns |-> IF c \in targets /\ connected[c]
                     THEN applyUpdate(cd[c], update) ELSE cd[c]]

ErrorMsg(code) == [type |-> "error", code |-> code]

RoomsGet(documentId) ==
  IF documentId \in DOMAIN rooms THEN rooms[documentId] ELSE NoRoom

(* A message whose handler suspends is received only while fewer than    *)
(* MaxInFlight handlers are suspended.                                    *)
Handlers == {t \in tasks : t.kind # "snapshot"}
MayStart == Cardinality(Handlers) < MaxInFlight

Finish(t) == tasks \ {t}
Goto(t, next) == (tasks \ {t}) \cup {next}

(* ------------------------------ join_room ------------------------------- *)

(* join_room, parseJWT fails: AUTH_FAILED. *)
JoinAuthFailed(c, message) ==
  /\ connected[c]
  /\ joinsLeft[c] > 0
  /\ parseJWT(message.token) = Null
  /\ joinsLeft' = [joinsLeft EXCEPT ![c] = @ - 1]
  /\ inbox' = Emit(inbox, {c}, ErrorMsg("AUTH_FAILED"))
  /\ UNCHANGED <<serverVars, connected, tasks, sent, nSnapshots, operations, sessions,
                 clientDoc, updatesLeft, failuresLeft, histVars, clockVars, recoveryVars>>

(* join_room up to `await getUserByOpenId(payload.openId)`. *)
JoinRoom(c, message) ==
  /\ connected[c]
  /\ joinsLeft[c] > 0
  /\ parseJWT(message.token) # Null
  /\ MayStart
  /\ joinsLeft' = [joinsLeft EXCEPT ![c] = @ - 1]
  /\ tasks' = tasks \cup
       {[kind |-> "join", pc |-> "getUserByOpenId", id |-> <<c, sent[c] + 1>>,
         conn |-> c, documentId |-> message.documentId, clientId |-> message.clientId,
         openId |-> parseJWT(message.token).openId, exp |-> parseJWT(message.token).exp,
         user |-> Null, room |-> NoRoom, session |-> Null]}
  /\ sent' = [sent EXCEPT ![c] = @ + 1]
  /\ UNCHANGED <<serverVars, connected, nSnapshots, operations, sessions, inbox,
                 clientDoc, updatesLeft, failuresLeft, histVars, clockVars, recoveryVars>>

(* The user is not found: USER_NOT_FOUND. *)
JoinUserNotFound(t) ==
  /\ t.kind = "join" /\ t.pc = "getUserByOpenId"
  /\ getUserByOpenId(t.openId) = Null
  /\ inbox' = Emit(inbox, {t.conn}, ErrorMsg("USER_NOT_FOUND"))
  /\ tasks' = Finish(t)
  /\ UNCHANGED <<serverVars, connected, sent, nSnapshots, operations, sessions, clientDoc,
                 joinsLeft, updatesLeft, failuresLeft, histVars, clockVars, recoveryVars>>

(* The user is found; getOrCreateRoom finds the room registered and the   *)
(* handler goes on to `await getDocument(documentId)`.                    *)
JoinRoomFound(t) ==
  /\ t.kind = "join" /\ t.pc = "getUserByOpenId"
  /\ getUserByOpenId(t.openId) # Null
  /\ RoomsGet(t.documentId) # NoRoom
  /\ tasks' = Goto(t, [t EXCEPT !.pc = "getDocument",
                                !.user = getUserByOpenId(t.openId),
                                !.room = RoomsGet(t.documentId)])
  /\ UNCHANGED <<serverVars, connected, sent, nSnapshots, operations, sessions, inbox,
                 clientDoc, joinsLeft, updatesLeft, failuresLeft, histVars, clockVars, recoveryVars>>

(* The user is found; getOrCreateRoom finds no room registered and waits  *)
(* on its own `await getDocument(documentId)`.                            *)
JoinRoomAbsent(t) ==
  /\ t.kind = "join" /\ t.pc = "getUserByOpenId"
  /\ getUserByOpenId(t.openId) # Null
  /\ RoomsGet(t.documentId) = NoRoom
  /\ tasks' = Goto(t, [t EXCEPT !.pc = "getOrCreateRoom",
                                !.user = getUserByOpenId(t.openId)])
  /\ UNCHANGED <<serverVars, connected, sent, nSnapshots, operations, sessions, inbox,
                 clientDoc, joinsLeft, updatesLeft, failuresLeft, histVars, clockVars, recoveryVars>>

(* getOrCreateRoom: the document does not exist: NOT_FOUND. *)
JoinNotFound(t) ==
  /\ t.kind = "join" /\ t.pc = "getOrCreateRoom"
  /\ getDocument(t.documentId) = Null
  /\ inbox' = Emit(inbox, {t.conn}, ErrorMsg("NOT_FOUND"))
  /\ tasks' = Finish(t)
  /\ UNCHANGED <<serverVars, connected, sent, nSnapshots, operations, sessions, clientDoc,
                 joinsLeft, updatesLeft, failuresLeft, histVars, clockVars, recoveryVars>>

(* The room getOrCreateRoom constructs from the document row. *)
NewRoom(doc) ==
  [doc |-> IF doc.snapshotState # Null
             THEN applyUpdate({}, doc.snapshotState.state) ELSE {},
   users |-> EmptyMap,
   lamportTime |-> 0,
   vectorClocks |-> EmptyMap,
   operationBuffer |-> <<>>,
   lastSnapshot |-> [version |-> doc.snapshotVersion]]

(* What getOrCreateRoom does with the registry once getDocument has       *)
(* answered: rooms.set(documentId, room).                                 *)
RegisterRoom(reg, documentId, room) == [reg EXCEPT ![documentId] = room]

(* getOrCreateRoom after its await: construct the room, register it, and  *)
(* the handler goes on to `await getDocument(documentId)`.                *)
JoinCreateRoom(t) ==
  /\ t.kind = "join" /\ t.pc = "getOrCreateRoom"
  /\ getDocument(t.documentId) # Null
  /\ heap' = Append(heap, NewRoom(getDocument(t.documentId)))
  /\ rooms' = RegisterRoom(rooms, t.documentId, Len(heap) + 1)
  /\ roomLog' = Append(roomLog,
       [documentId |-> t.documentId,
        replaced |-> rooms[t.documentId],
        startDoc |-> NewRoom(getDocument(t.documentId)).doc,
        earlier |-> dropped[t.documentId]])
  /\ tasks' = Goto(t, [t EXCEPT !.pc = "getDocument", !.room = Len(heap) + 1])
  /\ UNCHANGED <<currentSession, colorIndex, channel, connected, sent, nSnapshots,
                 operations, sessions, inbox, clientDoc, joinsLeft, updatesLeft,
                 failuresLeft, dropped, broadcasts, failedUpdates, rejected, clockVars, recoveryVars, silent>>

(* The access check's first half: `doc && doc.ownerId !== user.id`. *)
NeedsGrant(doc, user) == doc # Null /\ doc.ownerId # user.id

(* The session object the handler creates; `object` is its identity.      *)
NewSession(t, color) ==
  [userId |-> t.user.id, clientId |-> t.clientId, documentId |-> t.documentId,
   color |-> color, lastHeartbeat |-> now, object |-> t.id]

(* room.users.set(clientId, session) *)
UsersSet(users, clientId, session) == MapSet(users, clientId, session)

(* "Create session" up to `await createSession(...)`: the color, the      *)
(* session object, currentSession and room.users.                         *)
Admit(t) ==
  /\ colorIndex' = colorIndex + 1
  /\ currentSession' =
       [currentSession EXCEPT ![t.conn] = NewSession(t, getNextColor(colorIndex))]
  /\ heap' = [heap EXCEPT ![t.room].users =
       UsersSet(@, t.clientId, NewSession(t, getNextColor(colorIndex)))]
  /\ tasks' = Goto(t, [t EXCEPT !.pc = "createSession",
                                !.session = NewSession(t, getNextColor(colorIndex))])

(* After `await getDocument`: the user is not the owner, so the handler   *)
(* waits on `await checkDocumentAccess(documentId, user.id)`.             *)
JoinCheckAccess(t) ==
  /\ t.kind = "join" /\ t.pc = "getDocument"
  /\ NeedsGrant(getDocument(t.documentId), t.user)
  /\ tasks' = Goto(t, [t EXCEPT !.pc = "checkDocumentAccess"])
  /\ UNCHANGED <<serverVars, connected, sent, nSnapshots, operations, sessions, inbox,
                 clientDoc, joinsLeft, updatesLeft, failuresLeft, histVars, clockVars, recoveryVars>>

(* After `await getDocument`: the owner is admitted. *)
JoinOwner(t) ==
  /\ t.kind = "join" /\ t.pc = "getDocument"
  /\ ~NeedsGrant(getDocument(t.documentId), t.user)
  /\ Admit(t)
  /\ UNCHANGED <<rooms, channel, connected, sent, nSnapshots, operations, sessions, inbox,
                 clientDoc, joinsLeft, updatesLeft, failuresLeft, histVars, clockVars, recoveryVars>>

(* After `await checkDocumentAccess`: no row: ACCESS_DENIED. *)
JoinAccessDenied(t) ==
  /\ t.kind = "join" /\ t.pc = "checkDocumentAccess"
  /\ checkDocumentAccess(t.documentId, t.user.id) = Null
  /\ inbox' = Emit(inbox, {t.conn}, ErrorMsg("ACCESS_DENIED"))
  /\ tasks' = Finish(t)
  /\ UNCHANGED <<serverVars, connected, sent, nSnapshots, operations, sessions, clientDoc,
                 joinsLeft, updatesLeft, failuresLeft, histVars, clockVars, recoveryVars>>

(* After `await checkDocumentAccess`: a row: the user is admitted. *)
JoinGranted(t) ==
  /\ t.kind = "join" /\ t.pc = "checkDocumentAccess"
  /\ checkDocumentAccess(t.documentId, t.user.id) # Null
  /\ Admit(t)
  /\ UNCHANGED <<rooms, channel, connected, sent, nSnapshots, operations, sessions, inbox,
                 clientDoc, joinsLeft, updatesLeft, failuresLeft, histVars, clockVars, recoveryVars>>

RoomJoinedMsg(t, room) ==
  [type |-> "room_joined", documentId |-> t.documentId, clientId |-> t.clientId,
   users |-> {[clientId |-> room.users[k].clientId, userId |-> room.users[k].userId,
               color |-> room.users[k].color] : k \in DOMAIN room.users},
   docState |-> encodeStateAsUpdate(room.doc),
   lamportTime |-> room.lamportTime]

UserJoinedMsg(t) ==
  [type |-> "user_joined", userId |-> t.user.id, clientId |-> t.clientId,
   name |-> t.user.name, color |-> t.session.color]

(* After `await createSession`: the sessions row is stored, the socket    *)
(* joins doc:<documentId>, room_joined goes to it and user_joined to the  *)
(* others of the channel.                                                 *)
JoinCreatedSession(t) ==
  /\ t.kind = "join" /\ t.pc = "createSession"
  /\ sessions' = sessions \cup
       {[documentId |-> t.documentId, userId |-> t.user.id,
         clientId |-> t.clientId, userColor |-> t.session.color]}
  /\ channel' = [channel EXCEPT ![t.documentId] = @ \cup {t.conn}]
  /\ inbox' = Emit(Emit(inbox, {t.conn}, RoomJoinedMsg(t, heap[t.room])),
                   channel[t.documentId] \ {t.conn}, UserJoinedMsg(t))
  /\ clientDoc' = ClientApply(clientDoc, {t.conn}, encodeStateAsUpdate(heap[t.room].doc))
  /\ tasks' = Finish(t)
  /\ UNCHANGED <<rooms, heap, currentSession, colorIndex, connected, sent, nSnapshots,
                 operations, joinsLeft, updatesLeft, failuresLeft, histVars, clockVars, recoveryVars>>

(* `await createSession` rejects: the catch block emits SERVER_ERROR. *)
JoinCreateSessionFailed(t) ==
  /\ t.kind = "join" /\ t.pc = "createSession"
  /\ failuresLeft > 0
  /\ failuresLeft' = failuresLeft - 1
  /\ rejected' = rejected + 1
  /\ inbox' = Emit(inbox, {t.conn}, ErrorMsg("SERVER_ERROR"))
  /\ tasks' = Finish(t)
  /\ UNCHANGED <<serverVars, connected, sent, nSnapshots, operations, sessions, clientDoc,
                 joinsLeft, updatesLeft, roomLog, dropped, broadcasts, failedUpdates, clockVars, recoveryVars, silent>>

(* -------------------------------- update -------------------------------- *)

(* Update bytes: whether Y.applyUpdate can decode them, and the atoms     *)
(* they carry.                                                            *)
BadBytes == [valid |-> FALSE, atoms |-> {}]

(* The clientId a message of connection c may carry: the client's        *)
(* clientIdRef.  The server reads the field from the message, and         *)
(* connection 3 is a client that may put any clientId there.              *)
ClaimedIds(c) == IF c = 3 THEN ClientIds ELSE {ClientIdOf(c)}

(* The update messages connection c may send: the client's updateContent  *)
(* inserts into its own document and sends encodeStateAsUpdate of it; a   *)
(* message may also carry bytes that do not decode.                       *)
UpdateMessages(c) ==
  {[update |-> [valid |-> TRUE, atoms |-> clientDoc[c] \cup {a}],
    clientId |-> id] : a \in AtomsOf(c), id \in ClaimedIds(c)}
  \cup {[update |-> BadBytes, clientId |-> ClientIdOf(c)]}

(* The client's own document after updateContent. *)
ClientEdit(c, message) ==
  [clientDoc EXCEPT ![c] = IF message.update.valid
                             THEN applyUpdate(@, message.update.atoms) ELSE @]

Received(c) == connected[c] /\ updatesLeft > 0

(* The part of a room an update may change. *)
RoomState(room) ==
  [doc |-> room.doc, lamportTime |-> room.lamportTime,
   vectorClocks |-> room.vectorClocks, operationBuffer |-> room.operationBuffer]

(* update without a session: NOT_IN_ROOM. *)
UpdateNotInRoom(c, message) ==
  /\ Received(c)
  /\ currentSession[c] = Null
  /\ updatesLeft' = updatesLeft - 1
  /\ clientDoc' = ClientEdit(c, message)
  /\ inbox' = Emit(inbox, {c}, ErrorMsg("NOT_IN_ROOM"))
  /\ UNCHANGED <<serverVars, connected, tasks, sent, nSnapshots, operations, sessions,
                 joinsLeft, failuresLeft, histVars, clockVars, recoveryVars>>

(* A message of connection c that its handler returns from without       *)
(* emitting anything: the connection, the message type, and whether the   *)
(* connection holds room_joined for its session's document.  (Defined     *)
(* with the inbox, since Member comes later.)                             *)
Unanswered(c, type) ==
  [conn |-> c, type |-> type,
   joined |-> /\ currentSession[c] # Null
              /\ \E i \in DOMAIN inbox[c] :
                   /\ inbox[c][i].type = "room_joined"
                   /\ inbox[c][i].documentId = currentSession[c].documentId]

(* update when no room is registered for the session's document: the      *)
(* handler returns.                                                       *)
UpdateNoRoom(c, message) ==
  /\ Received(c)
  /\ currentSession[c] # Null
  /\ RoomsGet(currentSession[c].documentId) = NoRoom
  /\ updatesLeft' = updatesLeft - 1
  /\ clientDoc' = ClientEdit(c, message)
  /\ silent' = silent \cup {Unanswered(c, "update")}
  /\ UNCHANGED <<serverVars, connected, tasks, sent, nSnapshots, operations, sessions,
                 inbox, joinsLeft, failuresLeft, roomLog, dropped, broadcasts,
                 failedUpdates, rejected, clockVars, recoveryVars>>

(* update whose bytes Y.applyUpdate cannot decode: it throws, and the     *)
(* catch block emits UPDATE_FAILED.                                       *)
UpdateInvalid(c, message) ==
  /\ Received(c)
  /\ currentSession[c] # Null
  /\ RoomsGet(currentSession[c].documentId) # NoRoom
  /\ ~message.update.valid
  /\ updatesLeft' = updatesLeft - 1
  /\ clientDoc' = ClientEdit(c, message)
  /\ inbox' = Emit(inbox, {c}, ErrorMsg("UPDATE_FAILED"))
  /\ failedUpdates' = failedUpdates \cup
       {[conn |-> c,
         before |-> RoomState(heap[RoomsGet(currentSession[c].documentId)]),
         after |-> RoomState(heap[RoomsGet(currentSession[c].documentId)])]}
  /\ UNCHANGED <<serverVars, connected, tasks, sent, nSnapshots, operations, sessions,
                 joinsLeft, failuresLeft, roomLog, dropped, broadcasts, rejected, clockVars, recoveryVars, silent>>

(* A merge that leaves the Lamport clock alone. *)
MergeKeepsTime(room, message) ==
  [room EXCEPT !.doc = applyUpdate(@, message.update.atoms),
               !.vectorClocks = MapSet(@, message.clientId,
                                       MapGetOr0(@, message.clientId) + 1)]

(* Y.applyUpdate, room.lamportTime++ and the vector clock of              *)
(* message.clientId.                                                      *)
Merge(room, message) ==
  [room EXCEPT !.doc = applyUpdate(@, message.update.atoms),
               !.lamportTime = @ + 1,
               !.vectorClocks = MapSet(@, message.clientId,
                                       MapGetOr0(@, message.clientId) + 1)]

(* The version argument of addOperation. *)
OperationVersion(room) ==
  room.lastSnapshot.version + Len(room.operationBuffer)

(* The row addOperation is called with, its arguments evaluated after the *)
(* merge and before the await.                                            *)
OperationRow(session, message, room) ==
  [documentId |-> session.documentId, clientId |-> message.clientId,
   userId |-> session.userId, updateData |-> message.update.atoms,
   lamportTime |-> room.lamportTime, vectorClock |-> room.vectorClocks,
   version |-> OperationVersion(room)]

(* update up to `await addOperation(...)`. *)
UpdateApply(c, message) ==
  LET r == RoomsGet(currentSession[c].documentId) IN
  /\ Received(c)
  /\ currentSession[c] # Null
  /\ r # NoRoom
  /\ message.update.valid
  /\ MayStart
  /\ updatesLeft' = updatesLeft - 1
  /\ clientDoc' = ClientEdit(c, message)
  /\ heap' = [heap EXCEPT ![r] = Merge(@, message)]
  /\ tasks' = tasks \cup
       {[kind |-> "update", pc |-> "addOperation", id |-> <<c, sent[c] + 1>>, conn |-> c,
         room |-> r, update |-> message.update.atoms, clientId |-> message.clientId,
         row |-> OperationRow(currentSession[c], message, Merge(heap[r], message)),
         before |-> RoomState(heap[r]),
         after |-> RoomState(Merge(heap[r], message))]}
  /\ sent' = [sent EXCEPT ![c] = @ + 1]
  /\ UNCHANGED <<rooms, currentSession, colorIndex, channel, connected, nSnapshots,
                 operations, sessions, inbox, joinsLeft, failuresLeft, histVars, clockVars, recoveryVars>>

UpdateMsg(update, clientId, lamportTime) ==
  [type |-> "update", update |-> update, clientId |-> clientId,
   lamportTime |-> lamportTime]

(* A broadcast that reaches no one once its origin has closed. *)
BroadcastTargetsWhileOpen(documentId, origin) ==
  IF connected[origin] THEN channel[documentId] ELSE {}

(* The sockets io.to(`doc:${documentId}`).emit("update", ..) reaches. *)
BroadcastTargets(documentId, origin) == channel[documentId]

(* persistSnapshot up to `await import("./db")`: the state is encoded.    *)
(* `encoded` is the length operationBuffer has at that moment.            *)
SnapshotTask(documentId, r, buffer) ==
  [kind |-> "snapshot", pc |-> "import", id |-> <<0, nSnapshots + 1>>, documentId |-> documentId,
   room |-> r, state |-> encodeStateAsUpdate(heap[r].doc), encoded |-> Len(buffer)]

(* After `await addOperation`: the row is stored, and broadcastUpdate     *)
(* finds a room registered for currentSession.documentId: the update is   *)
(* emitted to the channel and pushed on that room's operationBuffer; a    *)
(* buffer longer than the threshold starts persistSnapshot.               *)
UpdateBroadcast(t) ==
  LET documentId == currentSession[t.conn].documentId
      registered == RoomsGet(documentId)
      lamportTime == heap[t.room].lamportTime
      buffer == Append(heap[registered].operationBuffer,
                       [update |-> t.update, clientId |-> t.clientId])
  IN
  /\ t.kind = "update" /\ t.pc = "addOperation"
  /\ registered # NoRoom
  /\ operations' = Append(operations, t.row)
  /\ inbox' = Emit(inbox, BroadcastTargets(documentId, t.conn),
                   UpdateMsg(t.update, t.clientId, lamportTime))
  /\ clientDoc' = ClientApply(clientDoc, BroadcastTargets(documentId, t.conn), t.update)
  /\ heap' = [heap EXCEPT ![registered].operationBuffer = buffer]
  /\ broadcasts' = Append(broadcasts,
       [id |-> t.id, origin |-> t.conn, clientId |-> t.clientId, documentId |-> documentId,
        room |-> t.room, registered |-> registered,
        applied |-> t.row.lamportTime, lamportTime |-> lamportTime,
        update |-> t.update, targets |-> BroadcastTargets(documentId, t.conn)])
  /\ IF Len(buffer) > SnapshotThreshold
       THEN /\ tasks' = Finish(t) \cup {SnapshotTask(documentId, registered, buffer)}
            /\ nSnapshots' = nSnapshots + 1
       ELSE /\ tasks' = Finish(t)
            /\ nSnapshots' = nSnapshots
  /\ UNCHANGED <<sent, rooms, currentSession, colorIndex, channel, connected, sessions,
                 joinsLeft, updatesLeft, failuresLeft, roomLog, dropped, failedUpdates, rejected, clockVars, recoveryVars, silent>>

(* After `await addOperation`: the row is stored, and broadcastUpdate     *)
(* finds no room registered for the document and returns.                 *)
UpdateBroadcastNoRoom(t) ==
  /\ t.kind = "update" /\ t.pc = "addOperation"
  /\ RoomsGet(currentSession[t.conn].documentId) = NoRoom
  /\ operations' = Append(operations, t.row)
  /\ tasks' = Finish(t)
  /\ UNCHANGED <<serverVars, connected, sent, nSnapshots, sessions, inbox, clientDoc,
                 joinsLeft, updatesLeft, failuresLeft, histVars, clockVars, recoveryVars>>

(* `await addOperation` rejects: the catch block emits UPDATE_FAILED.     *)
UpdateAddOperationFailed(t) ==
  /\ t.kind = "update" /\ t.pc = "addOperation"
  /\ failuresLeft > 0
  /\ failuresLeft' = failuresLeft - 1
  /\ rejected' = rejected + 1
  /\ inbox' = Emit(inbox, {t.conn}, ErrorMsg("UPDATE_FAILED"))
  /\ failedUpdates' = failedUpdates \cup
       {[conn |-> t.conn, before |-> t.before, after |-> t.after]}
  /\ tasks' = Finish(t)
  /\ UNCHANGED <<serverVars, connected, sent, nSnapshots, operations, sessions, clientDoc,
                 joinsLeft, updatesLeft, roomLog, dropped, broadcasts, clockVars, recoveryVars, silent>>

(* persistSnapshot after its await: nothing is written to the document    *)
(* row; the buffer is emptied and the snapshot version raised.            *)
PersistSnapshot(t) ==
  /\ t.kind = "snapshot" /\ t.pc = "import"
  /\ heap' = [heap EXCEPT ![t.room].operationBuffer = <<>>,
                          ![t.room].lastSnapshot.version = @ + 1]
  /\ tasks' = Finish(t)
  /\ UNCHANGED <<rooms, currentSession, colorIndex, channel, connected, sent, nSnapshots,
                 operations, sessions, inbox, clientDoc, joinsLeft, updatesLeft,
                 failuresLeft, histVars, clockVars, recoveryVars>>

(* ------------------------------ disconnect ------------------------------ *)

UserLeftMsg(session) ==
  [type |-> "user_left", clientId |-> session.clientId, userId |-> session.userId]

(* The socket leaves every channel as it closes. *)
LeaveAll(c) == [d \in DocIds |-> channel[d] \ {c}]

(* deleteSession(clientId) *)
DeleteSession(clientId) == {row \in sessions : row.clientId # clientId}

(* disconnect of a connection that has no session. *)
DisconnectNoSession(c) ==
  /\ connected[c]
  /\ currentSession[c] = Null
  /\ connected' = [connected EXCEPT ![c] = FALSE]
  /\ channel' = LeaveAll(c)
  /\ UNCHANGED <<rooms, heap, currentSession, colorIndex, tasks, sent, nSnapshots,
                 operations, sessions, inbox, clientDoc, joinsLeft, updatesLeft,
                 failuresLeft, histVars, clockVars, recoveryVars>>

(* disconnect with a session whose document has no room registered: only  *)
(* the sessions row is deleted.                                           *)
DisconnectNoRoom(c) ==
  /\ connected[c]
  /\ currentSession[c] # Null
  /\ RoomsGet(currentSession[c].documentId) = NoRoom
  /\ connected' = [connected EXCEPT ![c] = FALSE]
  /\ channel' = LeaveAll(c)
  /\ sessions' = DeleteSession(currentSession[c].clientId)
  /\ UNCHANGED <<rooms, heap, currentSession, colorIndex, tasks, sent, nSnapshots,
                 operations, inbox, clientDoc, joinsLeft, updatesLeft, failuresLeft,
                 histVars, clockVars, recoveryVars>>

(* room.users.delete(currentSession.clientId) *)
UsersDelete(users, clientId) == MapDelete(users, clientId)

(* disconnect with a session and a registered room: the entry of the      *)
(* session's clientId is deleted, user_left goes to the others of the     *)
(* channel, and members remain.                                           *)
DisconnectLeave(c) ==
  LET session == currentSession[c]
      r == RoomsGet(session.documentId)
  IN
  /\ connected[c]
  /\ session # Null
  /\ r # NoRoom
  /\ DOMAIN UsersDelete(heap[r].users, session.clientId) # {}
  /\ connected' = [connected EXCEPT ![c] = FALSE]
  /\ channel' = LeaveAll(c)
  /\ heap' = [heap EXCEPT ![r].users = UsersDelete(@, session.clientId)]
  /\ inbox' = Emit(inbox, channel[session.documentId] \ {c}, UserLeftMsg(session))
  /\ sessions' = DeleteSession(session.clientId)
  /\ UNCHANGED <<rooms, currentSession, colorIndex, tasks, sent, nSnapshots, operations,
                 clientDoc, joinsLeft, updatesLeft, failuresLeft, histVars, clockVars, recoveryVars>>

(* The same, and no member remains: persistSnapshot is started and the    *)
(* room is deleted from the registry.                                     *)
DisconnectDrop(c) ==
  LET session == currentSession[c]
      r == RoomsGet(session.documentId)
  IN
  /\ connected[c]
  /\ session # Null
  /\ r # NoRoom
  /\ DOMAIN UsersDelete(heap[r].users, session.clientId) = {}
  /\ connected' = [connected EXCEPT ![c] = FALSE]
  /\ channel' = LeaveAll(c)
  /\ heap' = [heap EXCEPT ![r].users = UsersDelete(@, session.clientId)]
  /\ inbox' = Emit(inbox, channel[session.documentId] \ {c}, UserLeftMsg(session))
  /\ tasks' = tasks \cup {SnapshotTask(session.documentId, r, heap[r].operationBuffer)}
  /\ nSnapshots' = nSnapshots + 1
  /\ rooms' = [rooms EXCEPT ![session.documentId] = NoRoom]
  /\ dropped' = [dropped EXCEPT ![session.documentId] = [doc |-> heap[r].doc]]
  /\ sessions' = DeleteSession(session.clientId)
  /\ UNCHANGED <<currentSession, colorIndex, sent, operations, clientDoc, joinsLeft,
                 updatesLeft, failuresLeft, roomLog, broadcasts, failedUpdates, rejected, clockVars, recoveryVars, silent>>

(* ---------------------------- specification ----------------------------- *)

(* -------------------- ping, sync_step1, cursor_update ------------------- *)

(* A ping, sync_step1 or cursor_update message of connection c arrives.   *)
Event(c) == connected[c] /\ eventsLeft > 0

(* Time passes: Date.now() reads one unit more, up to MaxTime. *)
Tick ==
  /\ now < MaxTime
  /\ now' = now + 1
  /\ UNCHANGED <<serverVars, connected, tasks, sent, nSnapshots, operations, sessions,
                 inbox, clientDoc, joinsLeft, updatesLeft, failuresLeft, histVars,
                 eventsLeft, recoveryVars>>

(* currentSession.lastHeartbeat = Date.now(): currentSession is the       *)
(* object room.users holds, so the entry of the room changes with it.     *)
Touch(users, object, time) ==
  [k \in DOMAIN users |->
     IF users[k].object = object THEN [users[k] EXCEPT !.lastHeartbeat = time]
                                 ELSE users[k]]

(* ping: the heartbeat of the session, if there is one, and pong.         *)
Ping(c) ==
  /\ Event(c)
  /\ eventsLeft' = eventsLeft - 1
  /\ IF currentSession[c] # Null
       THEN /\ currentSession' = [currentSession EXCEPT ![c].lastHeartbeat = now]
            /\ heap' = [r \in DOMAIN heap |->
                 [heap[r] EXCEPT !.users = Touch(@, currentSession[c].object, now)]]
       ELSE UNCHANGED <<currentSession, heap>>
  /\ inbox' = Emit(inbox, {c}, [type |-> "pong"])
  /\ UNCHANGED <<rooms, colorIndex, channel, connected, tasks, sent, nSnapshots,
                 operations, sessions, clientDoc, joinsLeft, updatesLeft, failuresLeft,
                 histVars, now, recoveryVars>>

(* The sync_step1 messages of connection c: the state vector of the       *)
(* client's document, as the atoms the client holds.                      *)
SyncStep1Messages(c) ==
  {[stateVector |-> clientDoc[c], clientId |-> id] : id \in ClaimedIds(c)}

(* Y.encodeStateAsUpdate(doc, stateVector): what doc holds beyond it.     *)
encodeStateAsUpdateSince(doc, stateVector) == doc \ stateVector

(* sync_step1 without a session: NOT_IN_ROOM. *)
SyncNotInRoom(c, message) ==
  /\ Event(c)
  /\ currentSession[c] = Null
  /\ eventsLeft' = eventsLeft - 1
  /\ inbox' = Emit(inbox, {c}, ErrorMsg("NOT_IN_ROOM"))
  /\ UNCHANGED <<serverVars, connected, tasks, sent, nSnapshots, operations, sessions,
                 clientDoc, joinsLeft, updatesLeft, failuresLeft, histVars, now, recoveryVars>>

(* sync_step1 with a session whose room is not registered: no reply.      *)
SyncNoRoom(c, message) ==
  /\ Event(c)
  /\ currentSession[c] # Null
  /\ RoomsGet(currentSession[c].documentId) = NoRoom
  /\ eventsLeft' = eventsLeft - 1
  /\ silent' = silent \cup {Unanswered(c, "sync_step1")}
  /\ UNCHANGED <<serverVars, connected, tasks, sent, nSnapshots, operations, sessions,
                 inbox, clientDoc, joinsLeft, updatesLeft, failuresLeft, roomLog, dropped, broadcasts,
                 failedUpdates, rejected, now, recoveryVars>>

(* sync_step1: sync_step2 to the sender with the difference.  The client  *)
(* registers no handler for sync_step2.                                   *)
SyncStep1(c, message) ==
  /\ Event(c)
  /\ currentSession[c] # Null
  /\ RoomsGet(currentSession[c].documentId) # NoRoom
  /\ eventsLeft' = eventsLeft - 1
  /\ inbox' = Emit(inbox, {c},
       [type |-> "sync_step2", clientId |-> message.clientId,
        update |-> encodeStateAsUpdateSince(
                     heap[RoomsGet(currentSession[c].documentId)].doc,
                     message.stateVector)])
  /\ UNCHANGED <<serverVars, connected, tasks, sent, nSnapshots, operations, sessions,
                 clientDoc, joinsLeft, updatesLeft, failuresLeft, histVars, now, recoveryVars>>

(* The cursor_update messages of connection c (no selection). *)
CursorUpdateMessages(c) ==
  {[position |-> p, clientId |-> id] : p \in 1 .. MaxPosition, id \in ClaimedIds(c)}

(* cursor_update without a session, or with a session whose room is not   *)
(* registered: the handler returns.                                       *)
CursorIgnored(c, message) ==
  /\ Event(c)
  /\ \/ currentSession[c] = Null
     \/ currentSession[c] # Null /\ RoomsGet(currentSession[c].documentId) = NoRoom
  /\ eventsLeft' = eventsLeft - 1
  /\ silent' = silent \cup {Unanswered(c, "cursor_update")}
  /\ UNCHANGED <<serverVars, connected, tasks, sent, nSnapshots, operations, sessions,
                 inbox, clientDoc, joinsLeft, updatesLeft, failuresLeft, roomLog, dropped, broadcasts,
                 failedUpdates, rejected, now, recoveryVars>>

(* cursor_update up to `await updateSessionCursor(...)`. *)
CursorUpdate(c, message) ==
  /\ Event(c)
  /\ currentSession[c] # Null
  /\ RoomsGet(currentSession[c].documentId) # NoRoom
  /\ MayStart
  /\ eventsLeft' = eventsLeft - 1
  /\ tasks' = tasks \cup
       {[kind |-> "cursor", pc |-> "updateSessionCursor", id |-> <<c, sent[c] + 1>>,
         conn |-> c, clientId |-> message.clientId, position |-> message.position]}
  /\ sent' = [sent EXCEPT ![c] = @ + 1]
  /\ UNCHANGED <<serverVars, connected, nSnapshots, operations, sessions, inbox,
                 clientDoc, joinsLeft, updatesLeft, failuresLeft, histVars, now, recoveryVars>>

(* updateSessionCursor: the rows of the clientId get the cursor and a     *)
(* heartbeat.                                                             *)
updateSessionCursor(clientId, cursorPosition) ==
  {IF row.clientId = clientId
     THEN [documentId |-> row.documentId, userId |-> row.userId,
           clientId |-> row.clientId, userColor |-> row.userColor,
           cursorPosition |-> cursorPosition, lastHeartbeat |-> now]
     ELSE row : row \in sessions}

CursorUpdateMsg(session, clientId, position) ==
  [type |-> "cursor_update", userId |-> session.userId, clientId |-> clientId,
   position |-> position, color |-> session.color]

(* cursor_update after its await: the broadcast to the others of the      *)
(* channel of currentSession's document.                                  *)
CursorBroadcast(t) ==
  /\ t.kind = "cursor" /\ t.pc = "updateSessionCursor"
  /\ sessions' = updateSessionCursor(t.clientId, t.position)
  /\ inbox' = Emit(inbox, channel[currentSession[t.conn].documentId] \ {t.conn},
                   CursorUpdateMsg(currentSession[t.conn], t.clientId, t.position))
  /\ tasks' = Finish(t)
  /\ UNCHANGED <<serverVars, connected, sent, nSnapshots, operations, clientDoc,
                 joinsLeft, updatesLeft, failuresLeft, histVars, clockVars, recoveryVars>>

(* `await updateSessionCursor` rejects: the catch block logs. *)
CursorUpdateFailed(t) ==
  /\ t.kind = "cursor" /\ t.pc = "updateSessionCursor"
  /\ failuresLeft > 0
  /\ failuresLeft' = failuresLeft - 1
  /\ rejected' = rejected + 1
  /\ tasks' = Finish(t)
  /\ UNCHANGED <<serverVars, connected, sent, nSnapshots, operations, sessions, inbox,
                 clientDoc, joinsLeft, updatesLeft, roomLog, dropped, broadcasts,
                 failedUpdates, clockVars, recoveryVars, silent>>

(* What the server holds of connection 1 once it has joined document 1   *)
(* as the first join_room after start: the handler's task as it reaches   *)
(* "Create session", the session object, and the message of each of the   *)
(* updates the client has sent since (its first edit, sent again in full  *)
(* by encodeStateAsUpdate on every later edit).                           *)
PriorJoin(s) ==
  [kind |-> "join", pc |-> "getDocument", id |-> <<1, 1>>, conn |-> 1,
   documentId |-> 1, clientId |-> ClientIdOf(1), openId |-> "o1", exp |-> 20,
   user |-> getUserByOpenId("o1"), room |-> 1, session |-> Null]

PriorSession(s) ==
  [userId |-> 1, clientId |-> ClientIdOf(1), documentId |-> 1,
   color |-> getNextColor(0), lastHeartbeat |-> s.start, object |-> <<1, 1>>]

PriorMessage ==
  [update |-> [valid |-> TRUE, atoms |-> {<<1, 1>>}], clientId |-> ClientIdOf(1)]

(* The Room of document 1 after connection 1 has joined it and k of its   *)
(* updates have been merged, stored and broadcast, one after the other.   *)
PriorRoom(s, k) ==
  [NewRoom(getDocument(1)) EXCEPT
     !.users = UsersSet(@, ClientIdOf(1), PriorSession(s)),
     !.doc = IF k > 0 THEN applyUpdate(@, PriorMessage.update.atoms) ELSE @,
     !.lamportTime = @ + k,
     !.vectorClocks = IF k > 0 THEN MapSet(@, PriorMessage.clientId, k) ELSE @,
     !.operationBuffer = [j \in 1 .. k |-> [update |-> PriorMessage.update.atoms,
                                           clientId |-> PriorMessage.clientId]]]

(* The row stored for the k-th of those updates: its arguments are read   *)
(* after the merge and before the push.                                   *)
PriorRow(s, k) ==
  OperationRow(PriorSession(s), PriorMessage, Merge(PriorRoom(s, k - 1), PriorMessage))

PriorBroadcast(s, k) ==
  [id |-> <<1, k + 1>>, origin |-> 1, clientId |-> PriorMessage.clientId,
   documentId |-> 1, room |-> 1, registered |-> 1,
   applied |-> PriorRow(s, k).lamportTime, lamportTime |-> PriorRoom(s, k).lamportTime,
   update |-> PriorMessage.update.atoms, targets |-> {1}]

(* The server and its clients at the start of run s: nothing has happened *)
(* (s.prior = 0), or connection 1 has joined document 1 and s.prior of    *)
(* its updates have been handled to completion.                           *)
Start(s) ==
  LET joined == s.prior > 0
      n == s.prior
  IN
  /\ rooms = [d \in DocIds |-> IF joined /\ d = 1 THEN 1 ELSE NoRoom]
  /\ heap = IF joined THEN <<PriorRoom(s, n)>> ELSE <<>>
  /\ currentSession = [c \in Conns |-> IF joined /\ c = 1 THEN PriorSession(s) ELSE Null]
  /\ colorIndex = IF joined THEN 1 ELSE 0
  /\ channel = [d \in DocIds |-> IF joined /\ d = 1 THEN {1} ELSE {}]
  /\ tasks = {}
  /\ sent = [c \in Conns |-> IF joined /\ c = 1 THEN n + 1 ELSE 0]
  /\ nSnapshots = 0
  /\ operations = [k \in 1 .. n |-> PriorRow(s, k)]
  /\ sessions = IF joined
                  THEN {[documentId |-> 1, userId |-> 1, clientId |-> ClientIdOf(1),
                         userColor |-> PriorSession(s).color]}
                  ELSE {}
  /\ inbox = [c \in Conns |->
                IF joined /\ c = 1
                  THEN <<RoomJoinedMsg(PriorJoin(s), PriorRoom(s, 0))>> \o
                       [k \in 1 .. n |->
                          UpdateMsg(PriorMessage.update.atoms, PriorMessage.clientId,
                                    PriorRoom(s, k).lamportTime)]
                  ELSE <<>>]
  /\ clientDoc = [c \in Conns |->
                    IF joined /\ c = 1 THEN PriorMessage.update.atoms ELSE {}]
  /\ connected = [c \in Conns |-> c \in s.open]
  /\ joinsLeft = [c \in Conns |->
                    IF c \in s.open
                      THEN (IF joined /\ c = 1 THEN s.joins - 1 ELSE s.joins)
                      ELSE 0]
  /\ updatesLeft = s.updates
  /\ failuresLeft = s.failures
  /\ eventsLeft = s.events
  /\ now = s.start
  /\ roomLog = IF joined
                 THEN <<[documentId |-> 1, replaced |-> NoRoom,
                         startDoc |-> NewRoom(getDocument(1)).doc, earlier |-> Null]>>
                 ELSE <<>>
  /\ dropped = [d \in DocIds |-> Null]
  /\ broadcasts = [k \in 1 .. n |-> PriorBroadcast(s, k)]
  /\ failedUpdates = {}
  /\ rejected = 0
  /\ silent = {}

Init == \E s \in Scenarios : Start(s) /\ NoRecovery(0)

Next ==
  \/ \E c \in Conns : \E message \in JoinRoomMessages(c) : JoinAuthFailed(c, message)
  \/ \E c \in Conns : \E message \in JoinRoomMessages(c) : JoinRoom(c, message)
  \/ \E t \in tasks : JoinUserNotFound(t)
  \/ \E t \in tasks : JoinRoomFound(t)
  \/ \E t \in tasks : JoinRoomAbsent(t)
  \/ \E t \in tasks : JoinNotFound(t)
  \/ \E t \in tasks : JoinCreateRoom(t)
  \/ \E t \in tasks : JoinCheckAccess(t)
  \/ \E t \in tasks : JoinOwner(t)
  \/ \E t \in tasks : JoinAccessDenied(t)
  \/ \E t \in tasks : JoinGranted(t)
  \/ \E t \in tasks : JoinCreatedSession(t)
  \/ \E t \in tasks : JoinCreateSessionFailed(t)
  \/ \E t \in tasks : UpdateBroadcast(t)
  \/ \E t \in tasks : UpdateBroadcastNoRoom(t)
  \/ \E t \in tasks : UpdateAddOperationFailed(t)
  \/ \E t \in tasks : PersistSnapshot(t)
  \/ \E c \in Conns : \E message \in UpdateMessages(c) : UpdateNotInRoom(c, message)
  \/ \E c \in Conns : \E message \in UpdateMessages(c) : UpdateNoRoom(c, message)
  \/ \E c \in Conns : \E message \in UpdateMessages(c) : UpdateInvalid(c, message)
  \/ \E c \in Conns : \E message \in UpdateMessages(c) : UpdateApply(c, message)
  \/ \E c \in Conns : DisconnectNoSession(c)
  \/ \E c \in Conns : DisconnectNoRoom(c)
  \/ \E c \in Conns : DisconnectLeave(c)
  \/ \E c \in Conns : DisconnectDrop(c)
  \/ Tick
  \/ \E c \in Conns : Ping(c)
  \/ \E c \in Conns : \E message \in SyncStep1Messages(c) : SyncNotInRoom(c, message)
  \/ \E c \in Conns : \E message \in SyncStep1Messages(c) : SyncNoRoom(c, message)
  \/ \E c \in Conns : \E message \in SyncStep1Messages(c) : SyncStep1(c, message)
  \/ \E c \in Conns : \E message \in CursorUpdateMessages(c) : CursorIgnored(c, message)
  \/ \E c \in Conns : \E message \in CursorUpdateMessages(c) : CursorUpdate(c, message)
  \/ \E t \in tasks : CursorBroadcast(t)
  \/ \E t \in tasks : CursorUpdateFailed(t)

Spec == Init /\ [][Next]_vars

(* ------------------------- offline recovery ----------------------------- *)

mainVars == <<serverVars, connected, tasks, sent, nSnapshots, operations, sessions,
              inbox, clientDoc, joinsLeft, updatesLeft, failuresLeft, histVars, clockVars>>

(* No socket is open: only the offline queue is at work. *)
NoSockets == [open |-> {}, joins |-> 0, updates |-> 0, failures |-> 0, events |-> 0, prior |-> 0,
              start |-> MaxTime]

(* Buffer.from(update).toString("base64") and Buffer.from(data, "base64"). *)
toBase64(update) == [base64 |-> update]
fromBase64(updateData) == updateData.base64

(* The updates a client queues while offline: an insert of its own, or    *)
(* bytes that do not decode.                                              *)
OfflineUpdates(clientId) ==
  {[valid |-> TRUE, atoms |-> {<<clientId, 1>>}], BadBytes}

(* db.insert(offlineQueue).values({..}): the row, with its serial id. *)
addOfflineOperation(table, id, clientId, documentId, updateData, sequenceNumber) ==
  Append(table, [id |-> id, clientId |-> clientId, documentId |-> documentId,
                 updateData |-> updateData, sequenceNumber |-> sequenceNumber])

(* .orderBy(offlineQueue.sequenceNumber): ascending, rows of equal         *)
(* sequenceNumber in the order of the table.                              *)
RECURSIVE OrderBySequenceNumber(_)
OrderBySequenceNumber(rows) ==
  IF rows = <<>> THEN <<>>
  ELSE LET row == rows[Len(rows)]
           sorted == OrderBySequenceNumber(SubSeq(rows, 1, Len(rows) - 1))
           k == Cardinality({i \in DOMAIN sorted :
                               sorted[i].sequenceNumber <= row.sequenceNumber})
       IN SubSeq(sorted, 1, k) \o <<row>> \o SubSeq(sorted, k + 1, Len(sorted))

(* The condition both queries hand to .where(). *)
QueueWhere(clientId, documentId) ==
  JsAnd(Eq("clientId", clientId), Eq("documentId", documentId))

getOfflineQueue(table, clientId, documentId) ==
  OrderBySequenceNumber(
    SelectSeq(table, LAMBDA row : Matches(row, QueueWhere(clientId, documentId))))

clearOfflineQueue(table, clientId, documentId) ==
  SelectSeq(table, LAMBDA row : ~Matches(row, QueueWhere(clientId, documentId)))

(* The loop of recoverOfflineOperations over queuedOps. *)
RECURSIVE Replay(_, _)
Replay(queuedOps, acc) ==
  IF queuedOps = <<>> THEN acc
  ELSE LET update == fromBase64(Head(queuedOps).updateData) IN
       Replay(Tail(queuedOps),
              IF update.valid
                THEN [acc EXCEPT !.doc = applyUpdate(@, update.atoms),
                                 !.recovered = @ + 1]
                ELSE [acc EXCEPT !.conflicts = @ + 1])

(* What a finished recovery is remembered by. *)
Outcome(t, queuedOps, result, before, after) ==
  [clientId |-> t.clientId, documentId |-> t.documentId, queuedOps |-> queuedOps,
   recovered |-> result.recovered, conflicts |-> result.conflicts,
   before |-> before, after |-> after]

(* queueOfflineOperation. *)
QueueOfflineOperation(clientId, documentId, update, sequenceNumber) ==
  /\ nextRowId <= MaxQueued
  /\ offlineQueue' = addOfflineOperation(offlineQueue, nextRowId, clientId, documentId,
                                         toBase64(update), sequenceNumber)
  /\ nextRowId' = nextRowId + 1
  /\ UNCHANGED <<mainVars, ydoc, recoveries, outcomes, recoveriesLeft>>

(* recoverOfflineOperations up to `await getOfflineQueue(..)`. *)
RecoverStart(clientId, documentId) ==
  /\ recoveriesLeft > 0
  /\ recoveriesLeft' = recoveriesLeft - 1
  /\ recoveries' = recoveries \cup
       {[id |-> recoveriesLeft, pc |-> "getOfflineQueue", clientId |-> clientId,
         documentId |-> documentId]}
  /\ UNCHANGED <<mainVars, offlineQueue, nextRowId, ydoc, outcomes>>

(* After `await getOfflineQueue`: no rows, {recovered: 0, conflicts: 0}. *)
RecoverNothing(t) ==
  /\ t.pc = "getOfflineQueue"
  /\ getOfflineQueue(offlineQueue, t.clientId, t.documentId) = <<>>
  /\ recoveries' = recoveries \ {t}
  /\ outcomes' = Append(outcomes,
       Outcome(t, <<>>, [recovered |-> 0, conflicts |-> 0], offlineQueue, offlineQueue))
  /\ UNCHANGED <<mainVars, offlineQueue, nextRowId, ydoc, recoveriesLeft>>

(* After `await getOfflineQueue`: the loop applies the rows to ydoc, and  *)
(* the call waits on `await clearOfflineQueue(..)`.                       *)
RecoverReplay(t) ==
  LET queuedOps == getOfflineQueue(offlineQueue, t.clientId, t.documentId)
      result == Replay(queuedOps, [doc |-> ydoc[t.documentId], recovered |-> 0,
                                   conflicts |-> 0])
  IN
  /\ t.pc = "getOfflineQueue"
  /\ queuedOps # <<>>
  /\ ydoc' = [ydoc EXCEPT ![t.documentId] = result.doc]
  /\ recoveries' = (recoveries \ {t}) \cup
       {[id |-> t.id, pc |-> "clearOfflineQueue", clientId |-> t.clientId,
         documentId |-> t.documentId, queuedOps |-> queuedOps, before |-> offlineQueue,
         recovered |-> result.recovered, conflicts |-> result.conflicts]}
  /\ UNCHANGED <<mainVars, offlineQueue, nextRowId, outcomes, recoveriesLeft>>

(* After `await clearOfflineQueue`: the rows are deleted and the counts   *)
(* returned.                                                              *)
RecoverClear(t) ==
  /\ t.pc = "clearOfflineQueue"
  /\ offlineQueue' = clearOfflineQueue(offlineQueue, t.clientId, t.documentId)
  /\ recoveries' = recoveries \ {t}
  /\ outcomes' = Append(outcomes,
       Outcome(t, t.queuedOps, t, t.before,
               clearOfflineQueue(offlineQueue, t.clientId, t.documentId)))
  /\ UNCHANGED <<mainVars, nextRowId, ydoc, recoveriesLeft>>

(* A storage call rejects: the catch block logs and throws. *)
RecoverFailed(t) ==
  /\ recoveries' = recoveries \ {t}
  /\ UNCHANGED <<mainVars, offlineQueue, nextRowId, ydoc, outcomes, recoveriesLeft>>

RecoveryInit == Start(NoSockets) /\ NoRecovery(MaxRecoveries)

RecoveryNext ==
  \/ \E clientId \in ClientIds : \E documentId \in DOMAIN ydoc :
       \E update \in OfflineUpdates(clientId) : \E sequenceNumber \in 1 .. MaxSequence :
         QueueOfflineOperation(clientId, documentId, update, sequenceNumber)
  \/ \E clientId \in ClientIds : \E documentId \in DOMAIN ydoc :
       RecoverStart(clientId, documentId)
  \/ \E t \in recoveries : RecoverNothing(t)
  \/ \E t \in recoveries : RecoverReplay(t)
  \/ \E t \in recoveries : RecoverClear(t)
  \/ \E t \in recoveries : RecoverFailed(t)

RecoverySpec == RecoveryInit /\ [][RecoveryNext]_vars

(* ------------------------------- claims --------------------------------- *)

(* No handler and no persistSnapshot is suspended. *)
Quiescent == tasks = {}

Received_(c, type) == {i \in DOMAIN inbox[c] : inbox[c][i].type = type}

(* Connection c has received room_joined for document d. *)
HasJoined(c, d) ==
  \E i \in Received_(c, "room_joined") : inbox[c][i].documentId = d

(* A session that has joined d and has not disconnected. *)
Member(c, d) == connected[c] /\ HasJoined(c, d)

GotError(c, code) ==
  \E i \in Received_(c, "error") : inbox[c][i].code = code

(* The user may enter the document: its owner, or the holder of a grant   *)
(* for this document and this user.                                       *)
Entitled(userId, documentId) ==
  \/ \E d \in Documents : d.id = documentId /\ d.ownerId = userId
  \/ \E p \in DocumentPermissions : p.documentId = documentId /\ p.userId = userId

(* No storage call has been rejected. *)
NoStorageFailure == rejected = 0

(* C1. Convergence: when every update was sent by a member (none was      *)
(* answered NOT_IN_ROOM), storage never failed, no handler is in flight    *)
(* and every broadcast is delivered, every connected member of a document  *)
(* holds the state of the Room registered for the document, and all        *)
(* members hold the same state.                                            *)
C1_Convergence ==
  (Quiescent /\ NoStorageFailure /\ \A c \in Conns : ~GotError(c, "NOT_IN_ROOM")) =>
    \A d \in DocIds :
      /\ \A c \in Conns :
           (Member(c, d) /\ rooms[d] # NoRoom) => clientDoc[c] = heap[rooms[d]].doc
      /\ \A c1, c2 \in Conns :
           (Member(c1, d) /\ Member(c2, d)) => clientDoc[c1] = clientDoc[c2]

(* C2. Single-writer ordering: two updates merged into the same Room are   *)
(* broadcast in the order the Room merged them (storage never failing).    *)
C2_BroadcastInMergeOrder ==
  NoStorageFailure =>
    \A i, j \in DOMAIN broadcasts :
      (i < j /\ broadcasts[i].room = broadcasts[j].room) =>
        broadcasts[i].applied < broadcasts[j].applied

(* C3. Room lifecycle: with no handler in flight and storage never having  *)
(* failed, a Room is registered for document D exactly if a session has    *)
(* joined D and not disconnected.                                          *)
C3_RoomIffMember ==
  (Quiescent /\ NoStorageFailure) => \A d \in DocIds : (rooms[d] # NoRoom <=> \E c \in Conns : Member(c, d))

(* C4. getOrCreate is race-free: no Room is constructed for a document     *)
(* while a Room is registered for it, and a Room that holds members is the *)
(* one registered for its document.                                        *)
C4_OneRoomPerDocument ==
  \A r \in DOMAIN heap :
    /\ roomLog[r].replaced = NoRoom
    /\ DOMAIN heap[r].users # {} => rooms[roomLog[r].documentId] = r

(* C5. Operation versions: the rows of one document carry strictly         *)
(* increasing versions in insertion order.                                 *)
C5_VersionsIncrease ==
  \A i, j \in DOMAIN operations :
    (i < j /\ operations[i].documentId = operations[j].documentId) =>
      operations[i].version < operations[j].version

(* C6. Persistence round-trip: a Room constructed after an earlier Room of *)
(* the document was dropped starts with the state the earlier Room held    *)
(* when it was dropped.                                                    *)
C6_RoundTrip ==
  \A r \in DOMAIN roomLog :
    roomLog[r].earlier # Null => roomLog[r].startDoc = roomLog[r].earlier.doc

(* C7. Failure isolation: an update answered UPDATE_FAILED has left the    *)
(* Room's document, lamportTime, vectorClocks and operationBuffer as they  *)
(* were before it was handled.                                             *)
C7_FailedUpdateLeavesRoom ==
  \A f \in failedUpdates : f.after = f.before

(* C8. Access enforcement: every member of a Room is the owner of the      *)
(* document or holds a grant for exactly this document and this user.      *)
C8_MembersEntitled ==
  \A r \in DOMAIN heap : \A k \in DOMAIN heap[r].users :
    Entitled(heap[r].users[k].userId, heap[r].users[k].documentId)

(* C9. Access denied: a user who is neither owner nor grantee of D gets no *)
(* room_joined for D, and no sessions row is stored for that user and D.   *)
C9_DeniedGetsNothing ==
  /\ \A row \in sessions : Entitled(row.userId, row.documentId)
  /\ \A c \in Conns : \A i \in Received_(c, "room_joined") :
       \A u \in inbox[c][i].users :
         u.clientId = inbox[c][i].clientId => Entitled(u.userId, inbox[c][i].documentId)

(* Message i of connection c's inbox tells it that clientId x is present / *)
(* has left.                                                               *)
SaysJoined(c, i, x) ==
  inbox[c][i].type = "user_joined" /\ inbox[c][i].clientId = x
SaysLeft(c, i, x) ==
  inbox[c][i].type = "user_left" /\ inbox[c][i].clientId = x

(* C10. Duplicate clientId: a peer that has seen clientId x join sees      *)
(* user_left for x before it sees user_joined for x again.                 *)
C10_LeftBeforeRejoined ==
  \A c \in Conns : \A x \in ClientIds \ {ClientIdOf(c)} :
    \A i, j \in DOMAIN inbox[c] :
      (i < j /\ SaysJoined(c, i, x) /\ SaysJoined(c, j, x)) =>
        \E k \in i + 1 .. j - 1 : SaysLeft(c, k, x)

(* C11. Exclude origin: the broadcast of an accepted update is not         *)
(* delivered to the connection that sent the update.                       *)
C11_ExcludeOrigin ==
  \A i \in DOMAIN broadcasts : broadcasts[i].origin \notin broadcasts[i].targets

(* The updates a step accepts into room r: the update handlers that have *)
(* merged their bytes and wait for addOperation.                          *)
AcceptedInStep(r) ==
  {t \in tasks' \ tasks : t.kind = "update" /\ t.room = r}

(* C12. Lamport clock: a Room starts at lamportTime 0; in every step the  *)
(* lamportTime of every Room grows by exactly the number of updates the   *)
(* step accepts into that Room, which is 0 or 1: it never decreases, and  *)
(* join_room, sync_step1, cursor_update, ping, disconnect and             *)
(* persistSnapshot leave it alone.                                        *)
C12_LamportClock ==
  [][/\ \A r \in DOMAIN heap :
          /\ r \in DOMAIN heap'
          /\ Cardinality(AcceptedInStep(r)) \in {0, 1}
          /\ heap'[r].lamportTime = heap[r].lamportTime + Cardinality(AcceptedInStep(r))
     /\ \A r \in DOMAIN heap' \ DOMAIN heap : heap'[r].lamportTime = 0]_vars

(* A Room that has accepted an update, and whose member has since been    *)
(* answered a ping and a sync_step1.                                      *)
C12_Witness ==
  \E r \in DOMAIN heap : \E c \in Conns :
    /\ heap[r].lamportTime = 1
    /\ currentSession[c] # Null
    /\ RoomsGet(currentSession[c].documentId) = r
    /\ \E i \in Received_(c, "update") : \E j \in Received_(c, "pong") :
         \E k \in Received_(c, "sync_step2") : i < j /\ i < k

(* C13. Vector clock: in every step, for every Room and every client k,   *)
(* vectorClocks[k] grows by exactly the number of updates the step accepts *)
(* from connections whose session has clientId k; with the empty map of a  *)
(* new Room, vectorClocks[k] counts the accepted updates of client k, and  *)
(* an update of one session leaves every other client's counter alone.     *)
C13_VectorClock ==
  [][\A r \in DOMAIN heap : \A k \in ClientIds :
       MapGetOr0(heap'[r].vectorClocks, k) =
         MapGetOr0(heap[r].vectorClocks, k)
           + Cardinality({t \in AcceptedInStep(r) :
                            currentSession[t.conn].clientId = k})]_vars

(* The update of task t has been delivered to room r before: an update   *)
(* with the same bytes, from the same connection and clientId, was        *)
(* applied to r and broadcast.                                            *)
DeliveredBefore(r, t) ==
  \E i \in DOMAIN broadcasts :
    /\ broadcasts[i].room = r
    /\ broadcasts[i].origin = t.conn
    /\ broadcasts[i].clientId = t.clientId
    /\ broadcasts[i].update = t.update

(* C14. Idempotence: a step that accepts into a Room an update already    *)
(* delivered to it from the same origin leaves the Room's CRDT state as   *)
(* it was and does not increase vectorClocks[origin].                     *)
C14_Idempotence ==
  [][\A r \in DOMAIN heap : \A t \in AcceptedInStep(r) :
       DeliveredBefore(r, t) =>
         /\ heap'[r].doc = heap[r].doc
         /\ MapGetOr0(heap'[r].vectorClocks, t.clientId) =
              MapGetOr0(heap[r].vectorClocks, t.clientId)]_vars

(* No connection has a session: every connection is in INIT. *)
AllInInit == \A c \in Conns : currentSession[c] = Null

(* The step handles a sync_step1, update, cursor_update or ping message. *)
HandlesMessage == eventsLeft' # eventsLeft \/ updatesLeft' # updatesLeft

(* C15. INIT state: while no connection has joined, a step that handles a *)
(* sync_step1, update, cursor_update or ping answers its sender with      *)
(* error NOT_IN_ROOM and does nothing else: no pong, no other message, no *)
(* change of the rooms, the handlers in flight or the stored rows.        *)
C15_InitState ==
  [][(AllInInit /\ HandlesMessage) =>
       /\ \E c \in Conns : /\ connected[c]
                            /\ inbox' = Emit(inbox, {c}, ErrorMsg("NOT_IN_ROOM"))
       /\ UNCHANGED <<serverVars, tasks, operations, sessions>>]_vars

(* C16. Expired token: no join_room handler makes a session out of a     *)
(* token whose exp lies before the time the session is made: the join is  *)
(* rejected before currentSession is set and room.users gains the member. *)
C16_ExpiredToken ==
  \A t \in tasks :
    (t.kind = "join" /\ t.pc = "createSession") => t.exp >= t.session.lastHeartbeat

RejectCodes == {"AUTH_FAILED", "USER_NOT_FOUND", "NOT_FOUND", "ACCESS_DENIED"}

(* C17. Rejected join closes: a connection that has been sent one of the  *)
(* errors that reject a join_room, with the handler that sent it          *)
(* finished, is closed.                                                   *)
C17_RejectedJoinCloses ==
  \A c \in Conns :
    ((\E code \in RejectCodes : GotError(c, code))
       /\ ~\E t \in tasks : t.kind = "join" /\ t.conn = c)
    => ~connected[c]

(* Connection m receives in this step exactly one more message, a        *)
(* cursor_update with the clientId and color of session and the position. *)
ReceivesCursorOf(m, session, position) ==
  /\ Len(inbox'[m]) = Len(inbox[m]) + 1
  /\ SubSeq(inbox'[m], 1, Len(inbox[m])) = inbox[m]
  /\ LET msg == inbox'[m][Len(inbox'[m])] IN
       /\ msg.type = "cursor_update"
       /\ msg.clientId = session.clientId
       /\ msg.position = position
       /\ msg.color = session.color

(* C18. Cursor fan-out: the step that ends the cursor_update handler of a *)
(* JOINED member A delivers to every other member of A's document one     *)
(* cursor_update carrying the clientId of A's session, the position and   *)
(* A's color, and delivers nothing to A.                                  *)
C18_CursorFanOut ==
  [][\A t \in tasks \ tasks' :
       (t.kind = "cursor" /\ Member(t.conn, currentSession[t.conn].documentId)) =>
         \A m \in Conns :
           IF m = t.conn
             THEN inbox'[m] = inbox[m]
             ELSE Member(m, currentSession[t.conn].documentId) =>
                    ReceivesCursorOf(m, currentSession[t.conn], t.position)]_vars

(* The session of connection c is a member of the Room registered for    *)
(* its document.                                                          *)
InRoom(c) ==
  /\ connected[c]
  /\ currentSession[c] # Null
  /\ RoomsGet(currentSession[c].documentId) # NoRoom
  /\ LET users == heap[RoomsGet(currentSession[c].documentId)].users IN
       \E k \in DOMAIN users : users[k].object = currentSession[c].object

(* C19. Heartbeat: a JOINED session whose last heartbeat lies more than   *)
(* the timeout and one check period (taken as one ping interval) in the   *)
(* past is no longer a member of its Room.                                *)
C19_Heartbeat ==
  \A c \in Conns :
    (InRoom(c) /\ Member(c, currentSession[c].documentId))
      => now - currentSession[c].lastHeartbeat <= HeartbeatTimeout + 1

RowIds(rows) == {rows[k].id : k \in DOMAIN rows}

(* The rows of the table that client clientId queued for documentId. *)
QueuedFor(table, clientId, documentId) ==
  SelectSeq(table, LAMBDA row : row.clientId = clientId /\ row.documentId = documentId)

(* The rows among them whose update applies. *)
Applicable(rows) == {rows[k].id : k \in {j \in DOMAIN rows : fromBase64(rows[j].updateData).valid}}

(* The recovery read exactly the rows queued for its (clientId,           *)
(* documentId), in ascending sequenceNumber order.                        *)
ReadInOrder(o) ==
  /\ RowIds(o.queuedOps) = RowIds(QueuedFor(o.before, o.clientId, o.documentId))
  /\ Len(o.queuedOps) = Len(QueuedFor(o.before, o.clientId, o.documentId))
  /\ \A j, k \in DOMAIN o.queuedOps :
       j < k => o.queuedOps[j].sequenceNumber <= o.queuedOps[k].sequenceNumber

(* It returned the number applied and the number that failed. *)
CountsAdd(o) ==
  LET queued == QueuedFor(o.before, o.clientId, o.documentId) IN
  /\ o.recovered = Cardinality(Applicable(queued))
  /\ o.conflicts = Len(queued) - Cardinality(Applicable(queued))

(* The rows gone from the queue are the rows it applied. *)
RemovedApplied(o) ==
  RowIds(o.before) \ RowIds(o.after)
    = Applicable(QueuedFor(o.before, o.clientId, o.documentId))

(* C20. Offline recovery: every finished recoverOfflineOperations call   *)
(* processed the entries queued for its (clientId, documentId) in         *)
(* ascending sequenceNumber order, returned recovered = the number        *)
(* applied and conflicts = the number that failed, the two adding up to   *)
(* the number of queued entries, and removed from the queue exactly the   *)
(* entries it applied.                                                    *)
C20_OfflineRecovery ==
  \A i \in DOMAIN outcomes :
    ReadInOrder(outcomes[i]) /\ CountsAdd(outcomes[i]) /\ RemovedApplied(outcomes[i])

(* The checkpoints a step completes: the persistSnapshot calls that      *)
(* return in it.                                                          *)
CheckpointsInStep == {t \in tasks \ tasks' : t.kind = "snapshot"}

(* C21. Checkpoint: the step that completes a checkpoint of a Room leaves *)
(* the Room's full state, as encoded, in the document's stored snapshot,  *)
(* empties operationBuffer and raises lastSnapshot.version by exactly 1,  *)
(* and the stored snapshotVersion then equals the Room's version.         *)
C21_Checkpoint ==
  [][\A t \in CheckpointsInStep :
       /\ heap'[t.room].operationBuffer = <<>>
       /\ heap'[t.room].lastSnapshot.version = heap[t.room].lastSnapshot.version + 1
       /\ getDocument(t.documentId).snapshotState # Null
       /\ getDocument(t.documentId).snapshotVersion
            = heap'[t.room].lastSnapshot.version]_vars

(* C22. Version formula: the row stored for a broadcast update carries    *)
(* the snapshot version of its Room plus the length of operationBuffer    *)
(* once the update has been appended to it.                               *)
C22_VersionFormula ==
  [][\A t \in tasks \ tasks' :
       (t.kind = "update" /\ Len(broadcasts') = Len(broadcasts) + 1
          /\ broadcasts'[Len(broadcasts')].registered = t.room) =>
         operations'[Len(operations')].version =
           heap'[t.room].lastSnapshot.version + Len(heap'[t.room].operationBuffer)]_vars

(* The step appends the update of handler t to the operationBuffer of    *)
(* the Room registered for its document and broadcasts it on the channel. *)
BufferedAndBroadcast(t) ==
  LET documentId == currentSession[t.conn].documentId
      r == RoomsGet(documentId)
  IN
  /\ heap'[r].operationBuffer =
       Append(heap[r].operationBuffer, [update |-> t.update, clientId |-> t.clientId])
  /\ Len(broadcasts') = Len(broadcasts) + 1
  /\ broadcasts'[Len(broadcasts')].id = t.id
  /\ \A m \in channel[documentId] \ {t.conn} :
       connected[m] =>
         /\ Len(inbox'[m]) = Len(inbox[m]) + 1
         /\ inbox'[m][Len(inbox'[m])].type = "update"
         /\ inbox'[m][Len(inbox'[m])].update = t.update

(* C23. Best-effort persistence: the step in which addOperation rejects   *)
(* for a merged update, while a Room is registered for the document,      *)
(* still appends the update to operationBuffer and broadcasts it.         *)
C23_BestEffortPersistence ==
  [][\A t \in tasks \ tasks' :
       (t.kind = "update" /\ rejected' = rejected + 1
          /\ RoomsGet(currentSession[t.conn].documentId) # NoRoom)
       => BufferedAndBroadcast(t)]_vars

(* C24. Broadcast lamport: every broadcast of an update carries the       *)
(* lamportTime its Room had right after the update was applied, which is  *)
(* the lamportTime of its Operation row, and two broadcasts of updates of *)
(* one Room never carry the same lamportTime.                             *)
C24_BroadcastLamport ==
  /\ \A i \in DOMAIN broadcasts : broadcasts[i].lamportTime = broadcasts[i].applied
  /\ \A i, j \in DOMAIN broadcasts :
       (i # j /\ broadcasts[i].room = broadcasts[j].room) =>
         broadcasts[i].lamportTime # broadcasts[j].lamportTime

(* Connection m receives in this step one more message, the update of t. *)
ReceivesUpdateOf(m, t) ==
  /\ Len(inbox'[m]) = Len(inbox[m]) + 1
  /\ inbox'[m][Len(inbox'[m])].type = "update"
  /\ inbox'[m][Len(inbox'[m])].update = t.update

(* Handler t belongs to a member that has disconnected while its Room is  *)
(* still registered and has members.                                      *)
SenderGone(t) ==
  /\ t.kind = "update"
  /\ ~connected[t.conn]
  /\ RoomsGet(currentSession[t.conn].documentId) = t.room
  /\ DOMAIN heap[t.room].users # {}

JoinsInStep ==
  {t \in tasks \ tasks' : t.kind = "join" /\ t.pc = "createSession"
                              /\ rejected' = rejected /\ connected[t.conn]}

(* C26. Join handshake: the step that completes a join delivers to the    *)
(* joiner one room_joined whose users list names the joiner and every     *)
(* other current member of the document, whose docState and lamportTime   *)
(* are those of the Room registered for the document, delivers            *)
(* user_joined for the joiner to every other member, and subscribes the   *)
(* joiner to the channel in the same step in which the state is encoded.  *)
C26_JoinHandshake ==
  [][\A t \in JoinsInStep :
       LET msg == inbox'[t.conn][Len(inbox'[t.conn])]
           named == {u.clientId : u \in msg.users}
           others == {m \in Conns \ {t.conn} : Member(m, t.documentId)}
       IN
       /\ Len(inbox'[t.conn]) = Len(inbox[t.conn]) + 1
       /\ msg.type = "room_joined"
       /\ t.clientId \in named
       /\ \A m \in others : currentSession[m].clientId \in named
       /\ RoomsGet(t.documentId) # NoRoom
       /\ msg.docState = heap[RoomsGet(t.documentId)].doc
       /\ msg.lamportTime = heap[RoomsGet(t.documentId)].lamportTime
       /\ \A m \in others :
            /\ Len(inbox'[m]) = Len(inbox[m]) + 1
            /\ inbox'[m][Len(inbox'[m])].type = "user_joined"
            /\ inbox'[m][Len(inbox'[m])].clientId = t.clientId
       /\ t.conn \in channel'[t.documentId]]_vars

(* Connection c is answered a sync_step2 in this step. *)
AnsweredSync(c) ==
  /\ Len(inbox'[c]) = Len(inbox[c]) + 1
  /\ inbox'[c][Len(inbox'[c])].type = "sync_step2"

(* C27. sync_step1 is read-only: no sync_step1 of a JOINED session is     *)
(* returned from without a reply, and the step that answers a sync_step1  *)
(* leaves every Room and the registry as they were, sends the one         *)
(* sync_step2 to the requester alone, and the sync_step2 carries what the *)
(* Room registered for the requester's document holds beyond the          *)
(* requester's state vector.                                              *)
C27_SyncReadOnly ==
  [][/\ \A x \in silent' \ silent : ~(x.type = "sync_step1" /\ x.joined)
     /\ \A c \in Conns :
          AnsweredSync(c) =>
            /\ heap' = heap /\ rooms' = rooms
            /\ \A m \in Conns \ {c} : inbox'[m] = inbox[m]
            /\ inbox'[c][Len(inbox'[c])].update =
                 heap[RoomsGet(currentSession[c].documentId)].doc \ clientDoc[c]]_vars

(* The step answers connection c with an error. *)
AnsweredError(c) ==
  /\ Len(inbox'[c]) = Len(inbox[c]) + 1
  /\ inbox'[c][Len(inbox'[c])].type = "error"

(* The step broadcasts the update of handler t, which the handler merged  *)
(* into the Room it found registered.                                     *)
BroadcastMerged(t) ==
  /\ Len(broadcasts') = Len(broadcasts) + 1
  /\ broadcasts'[Len(broadcasts')].id = t.id

(* C28. No silent loss: no update message of a joined, connected session  *)
(* is returned from without a reply, and every update handler of such a   *)
(* session ends either with the broadcast of the update it merged or with *)
(* an error to the sender.                                                *)
C28_NoSilentLoss ==
  [][/\ \A x \in silent' \ silent : ~(x.type = "update" /\ x.joined)
     /\ \A t \in tasks \ tasks' :
          (t.kind = "update" /\ Member(t.conn, currentSession[t.conn].documentId))
            => (BroadcastMerged(t) \/ AnsweredError(t.conn))]_vars

(* Every entry of the operationBuffer of Room r was merged into the doc   *)
(* of r.                                                                  *)
BufferMerged(r) ==
  \A k \in DOMAIN heap[r].operationBuffer :
    heap[r].operationBuffer[k].update \subseteq heap[r].doc

(* C29. Buffer and broadcast match the Room: every operationBuffer entry  *)
(* of a Room was merged into that Room's doc, and every update broadcast  *)
(* was merged into the Room that was registered for the document when it  *)
(* was broadcast.                                                         *)
C29_BufferMatchesRoom ==
  /\ \A r \in DOMAIN heap : BufferMerged(r)
  /\ \A i \in DOMAIN broadcasts : broadcasts[i].registered = broadcasts[i].room

(* C30. Checkpoint atomicity: in the step that completes a checkpoint of  *)
(* a Room, every operationBuffer entry the checkpoint removes is          *)
(* contained in the state the checkpoint encoded, every entry appended    *)
(* after the encoding stays in the buffer, and, while the Room is         *)
(* registered, no other checkpoint started by the same crossing of the    *)
(* threshold is still to run on it (each raises the version by one).      *)
C30_CheckpointAtomicity ==
  [][\A t \in CheckpointsInStep :
       LET buffer == heap[t.room].operationBuffer
           kept == heap'[t.room].operationBuffer
       IN
       /\ \A k \in 1 .. (Len(buffer) - Len(kept)) : buffer[k].update \subseteq t.state
       /\ \A k \in (t.encoded + 1) .. Len(buffer) :
            \E j \in DOMAIN kept : kept[j] = buffer[k]
       /\ RoomsGet(t.documentId) = t.room =>
            ~\E u \in tasks \ {t} : u.kind = "snapshot" /\ u.room = t.room]_vars

(* Connection m is joined and holds the members entry of its clientId in  *)
(* the Room registered for its document.                                  *)
HoldsEntry(m) ==
  /\ currentSession[m] # Null
  /\ Member(m, currentSession[m].documentId)
  /\ RoomsGet(currentSession[m].documentId) # NoRoom
  /\ LET users == heap[RoomsGet(currentSession[m].documentId)].users IN
       /\ currentSession[m].clientId \in DOMAIN users
       /\ users[currentSession[m].clientId].object = currentSession[m].object

(* Connection c, whose session carries the clientId and document of the   *)
(* joined connection m, disconnects in this step.                         *)
EvictedLeaves(c, m) ==
  /\ c # m
  /\ connected[c] /\ ~connected'[c]
  /\ currentSession[c] # Null
  /\ HoldsEntry(m)
  /\ currentSession[c].clientId = currentSession[m].clientId
  /\ currentSession[c].documentId = currentSession[m].documentId

(* C31. Evicted connection cannot remove its successor: when a connection *)
(* disconnects whose clientId a newer, still joined connection uses in    *)
(* the same Room, the Room stays registered and the newer connection's    *)
(* entry stays in its users.                                              *)
C31_EvictedKeepsSuccessor ==
  [][\A c, m \in Conns :
       EvictedLeaves(c, m) =>
         LET d == currentSession[m].documentId
             id == currentSession[m].clientId
         IN
         /\ rooms'[d] = rooms[d]
         /\ id \in DOMAIN heap'[rooms[d]].users
         /\ heap'[rooms[d]].users[id].object = currentSession[m].object]_vars

(* The Rooms that hold a users entry created by a join_room of           *)
(* connection c (the entry is the session object of one of its handlers). *)
RoomsHolding(c) ==
  {r \in DOMAIN heap :
     \E k \in DOMAIN heap[r].users : heap[r].users[k].object[1] = c}

(* C32. One membership per connection: no connection has users entries    *)
(* in more than one Room, and no Room holds a users entry of a connection *)
(* that has disconnected.                                                 *)
C32_OneMembership ==
  \A c \in Conns :
    /\ Cardinality(RoomsHolding(c)) <= 1
    /\ ~connected[c] => RoomsHolding(c) = {}

(* The joins that fail in a step with SERVER_ERROR: the join_room        *)
(* handlers whose createSession rejects.                                  *)
FailedJoinsInStep ==
  {t \in tasks \ tasks' : t.kind = "join" /\ t.pc = "createSession"
                              /\ rejected' = rejected + 1}

(* C33. Atomic join: the step in which join_room fails with SERVER_ERROR  *)
(* after the access check leaves no users entry of the failed join in its *)
(* Room, leaves the connection without the session of the failed join     *)
(* (so that its updates are answered NOT_IN_ROOM), and emits nothing but  *)
(* the error to the joiner.                                               *)
C33_AtomicJoin ==
  [][\A t \in FailedJoinsInStep :
       /\ \A k \in DOMAIN heap'[t.room].users : heap'[t.room].users[k].object # t.id
       /\ \/ currentSession'[t.conn] = Null
          \/ currentSession'[t.conn].object # t.id
       /\ \A m \in Conns \ {t.conn} : inbox'[m] = inbox[m]
       /\ connected[t.conn] =>
            /\ Len(inbox'[t.conn]) = Len(inbox[t.conn]) + 1
            /\ inbox'[t.conn][Len(inbox'[t.conn])] = ErrorMsg("SERVER_ERROR")]_vars

====
